---- MODULE Spec2Model ----
(***************************************************************************)
(* Model of libvirtnbdbackup: the signal handlers of sighandle.py          *)
(* (Backup.catch, Map.catch) and the qemu/nbdkit process wrappers of       *)
(* qemu/util.py (command lines, pid-file / log-file allocation, remote     *)
(* start, disconnect).                                                     *)
(*                                                                         *)
(* A Python string is a sequence of fragments (each fragment a TLA+        *)
(* string); an f-string or a concatenation is \o of its parts, a list of   *)
(* strings is a sequence of such sequences.                                *)
(***************************************************************************)
EXTENDS Integers, Sequences, FiniteSets, TLC

VARIABLES
    \* ---- sighandle.py: one process that receives a signal
    job,           \* "backup" (virtnbdbackup) or "map" (virtnbdmap)
    offline,       \* args.offline: "True", "False" or "None"
    sigpc,         \* position of the process / of the handler
    files,         \* which of blockMap.name, nbdkitProcess.logFile exist
    devConnected,  \* the nbd device is attached
    procAlive,     \* the nbdkit process (nbdkitProcess.pid) is alive
    steps,         \* the handler's steps attempted so far, in order
    exitStatus,    \* status given to sys.exit, -1 while none
    escaped,       \* exception that left the handler, "none" otherwise
    stopCalls,     \* number of virtClient.stopBackup calls
    stopFailed,    \* the stopBackup call reported a failure
    discCount,     \* number of util.disconnect calls made by the main flow
    discResult,    \* outcome of the last of them
    \* ---- qemu/util.py: sessions starting servers
    sess,          \* per session: the start operation in progress
    tmpfs,         \* names existing in the temporary directory
    runs,          \* <<pidFile, logFile>> of the remote executor calls made
    reused,        \* a remote executor call got a path an earlier call had
    nStarts,       \* number of start operations begun
    lastCall,      \* the last executor call: argv, line, pidFile, logFile
    lastResult,    \* what the last start operation gave its caller
    errLog         \* argument of the last log.error of util.py

sigVars == <<job, offline, sigpc, files, devConnected, procAlive, steps,
             exitStatus, escaped, stopCalls, stopFailed, discCount, discResult>>
utilVars == <<sess, tmpfs, runs, reused, nStarts, lastCall, lastResult, errLog>>
vars == <<job, offline, sigpc, files, devConnected, procAlive, steps,
          exitStatus, escaped, stopCalls, stopFailed, discCount, discResult,
          sess, tmpfs, runs, reused, nStarts, lastCall, lastResult, errLog>>

\* ------------------------------------------------------------------ bounds
MaxDisconnects == 2   \* disconnect calls of the main flow before the signal
MaxStarts == 2        \* remote starts begun over all concurrent sessions
MaxCmdStarts == 1     \* start operations begun by the single session
NSessions == 2        \* concurrent sessions sharing the temporary directory
NRnd == 2             \* random name parts the temp-file allocator draws from

\* ============================================================ sighandle.py

Jobs == {"backup", "map"}
OfflineValues == {"True", "False", "None"}
MapFiles == {"blockMap", "logFile"}

\* command.run: a non-zero exit status of the command raises to the caller.
CommandRun(rc) == IF rc # 0 THEN "ProcessError" ELSE "ok"

\* util.disconnect: return command.run(["qemu-nbd", "-d", device]); nothing
\* is caught, so the outcome of command.run is the outcome of disconnect.
Disconnect(rc) == CommandRun(rc)

\* os.remove(path): FileNotFoundError when the path does not exist.
OsRemove(fs, f) == IF f \in fs THEN "ok" ELSE "FileNotFoundError"

\* lib.killProc(pid): best-effort signal delivery, raises nothing; gives
\* whether the process is still alive afterwards.
KillProc(alive, delivered) == alive /\ ~delivered

\* virtClient.stopBackup(domObj): best-effort, a failure is logged.
StopBackup(fails) == fails

\* `if args.offline is not True:`
ShouldStopBackupInverted(off) == off = "True"
ShouldStopBackup(off) == off # "True"

\* Map.catch: the statement that follows each statement.
MapOrder == <<"disconnect", "removeBlockMap", "removeLog", "killProc", "exit">>
MapStepAfterSwapped(pcv) ==
    CASE pcv = "disconnect" -> "removeBlockMap"
      [] pcv = "removeBlockMap" -> "killProc"
      [] pcv = "killProc" -> "removeLog"
      [] pcv = "removeLog" -> "exit"
MapStepAfter(pcv) ==
    CASE pcv = "disconnect" -> "removeBlockMap"
      [] pcv = "removeBlockMap" -> "removeLog"
      [] pcv = "removeLog" -> "killProc"
      [] pcv = "killProc" -> "exit"

\* sys.exit(1) in Backup.catch, sys.exit(0) in Map.catch
BackupExitStatus == 1
MapExitStatus == 0

SigInit ==
    /\ job \in Jobs
    /\ offline \in (IF job = "backup" THEN OfflineValues ELSE {"None"})
    /\ sigpc = "running"
    /\ files = MapFiles
    /\ devConnected = TRUE
    /\ procAlive = TRUE
    /\ steps = <<>>
    /\ exitStatus = -1
    /\ escaped = "none"
    /\ stopCalls = 0
    /\ stopFailed = FALSE
    /\ discCount = 0
    /\ discResult = "none"

\* A temporary file disappears before the signal arrives (already removed by
\* the job or by anything else that cleans the temporary directory).
FileVanishes ==
    /\ sigpc = "running"
    /\ job = "map"
    /\ \E f \in files : files' = files \ {f}
    /\ UNCHANGED <<job, offline, sigpc, devConnected, procAlive, steps,
                   exitStatus, escaped, stopCalls, stopFailed, discCount,
                   discResult>>
    /\ UNCHANGED utilVars

\* The main flow calls util.disconnect(device); rc is the exit status of
\* `qemu-nbd -d`, which detaches the device when it succeeds.
DisconnectCall ==
    /\ sigpc = "running"
    /\ job = "map"
    /\ discCount < MaxDisconnects
    /\ \E rc \in {0, 1} :
          /\ discResult' = Disconnect(rc)
          /\ devConnected' = (devConnected /\ rc # 0)
    /\ discCount' = discCount + 1
    /\ UNCHANGED <<job, offline, sigpc, files, procAlive, steps, exitStatus,
                   escaped, stopCalls, stopFailed>>
    /\ UNCHANGED utilVars

\* Backup.catch is entered: two log.error lines, then the test of args.offline.
BackupCatch ==
    /\ sigpc = "running"
    /\ job = "backup"
    /\ sigpc' = IF ShouldStopBackup(offline) THEN "stopBackup" ELSE "exit"
    /\ UNCHANGED <<job, offline, files, devConnected, procAlive, steps,
                   exitStatus, escaped, stopCalls, stopFailed, discCount,
                   discResult>>
    /\ UNCHANGED utilVars

BackupStop ==
    /\ job = "backup"
    /\ sigpc = "stopBackup"
    /\ \E fails \in BOOLEAN : stopFailed' = StopBackup(fails)
    /\ stopCalls' = stopCalls + 1
    /\ steps' = Append(steps, "stopBackup")
    /\ sigpc' = "exit"
    /\ UNCHANGED <<job, offline, files, devConnected, procAlive, exitStatus,
                   escaped, discCount, discResult>>
    /\ UNCHANGED utilVars

BackupExit ==
    /\ job = "backup"
    /\ sigpc = "exit"
    /\ steps' = Append(steps, "exit")
    /\ exitStatus' = BackupExitStatus
    /\ sigpc' = "exited"
    /\ UNCHANGED <<job, offline, files, devConnected, procAlive, escaped,
                   stopCalls, stopFailed, discCount, discResult>>
    /\ UNCHANGED utilVars

\* Map.catch is entered: log.info, then qemu.util("").disconnect(device).
MapCatch ==
    /\ sigpc = "running"
    /\ job = "map"
    /\ sigpc' = "disconnect"
    /\ UNCHANGED <<job, offline, files, devConnected, procAlive, steps,
                   exitStatus, escaped, stopCalls, stopFailed, discCount,
                   discResult>>
    /\ UNCHANGED utilVars

MapDisconnect ==
    /\ job = "map"
    /\ sigpc = "disconnect"
    /\ steps' = Append(steps, "disconnect")
    /\ \E rc \in {0, 1} :
          /\ devConnected' = (devConnected /\ rc # 0)
          /\ IF Disconnect(rc) = "ok"
               THEN sigpc' = MapStepAfter("disconnect") /\ escaped' = escaped
               ELSE sigpc' = "raised" /\ escaped' = Disconnect(rc)
    /\ UNCHANGED <<job, offline, files, procAlive, exitStatus, stopCalls,
                   stopFailed, discCount, discResult>>
    /\ UNCHANGED utilVars

\* os.remove(blockMap.name) and os.remove(nbdkitProcess.logFile)
MapRemove(step, f) ==
    /\ job = "map"
    /\ sigpc = step
    /\ steps' = Append(steps, step)
    /\ IF OsRemove(files, f) = "ok"
         THEN /\ files' = files \ {f}
              /\ sigpc' = MapStepAfter(step)
              /\ escaped' = escaped
         ELSE /\ files' = files
              /\ sigpc' = "raised"
              /\ escaped' = OsRemove(files, f)
    /\ UNCHANGED <<job, offline, devConnected, procAlive, exitStatus,
                   stopCalls, stopFailed, discCount, discResult>>
    /\ UNCHANGED utilVars

MapRemoveBlockMap == MapRemove("removeBlockMap", "blockMap")

MapRemoveLog == MapRemove("removeLog", "logFile")

MapKill ==
    /\ job = "map"
    /\ sigpc = "killProc"
    /\ steps' = Append(steps, "killProc")
    /\ \E delivered \in BOOLEAN : procAlive' = KillProc(procAlive, delivered)
    /\ sigpc' = MapStepAfter("killProc")
    /\ UNCHANGED <<job, offline, files, devConnected, exitStatus, escaped,
                   stopCalls, stopFailed, discCount, discResult>>
    /\ UNCHANGED utilVars

MapExit ==
    /\ job = "map"
    /\ sigpc = "exit"
    /\ steps' = Append(steps, "exit")
    /\ exitStatus' = MapExitStatus
    /\ sigpc' = "exited"
    /\ UNCHANGED <<job, offline, files, devConnected, procAlive, escaped,
                   stopCalls, stopFailed, discCount, discResult>>
    /\ UNCHANGED utilVars

SigNext ==
    \/ FileVanishes
    \/ DisconnectCall
    \/ BackupCatch
    \/ BackupStop
    \/ BackupExit
    \/ MapCatch
    \/ MapDisconnect
    \/ MapRemoveBlockMap
    \/ MapRemoveLog
    \/ MapKill
    \/ MapExit

\* ============================================================ qemu/util.py

Sessions == 1..NSessions
Ops == {"remoteRestore", "remoteBackup", "localBackup", "nbdkit"}
RemoteOps == {"remoteRestore", "remoteBackup"}

\* Values of the parameters the command lines are built from.
ExportName == <<"sda">>
TargetFile == <<"/restore/sda.qcow2">>
DiskFile == <<"/var/lib/libvirt/images/sda.qcow2">>
DiskFormat == <<"qcow2">>
NbdPort == <<"10809">>
TlsCert == <<"/etc/pki/qemu">>
SocketFiles == {<<"/tmp/sock1">>, <<"/var/tmp/sock2">>}
BitMaps == {<<>>, <<"virtnbdbackup.1">>}
NbdIps == {<<>>, <<"192.168.122.1">>}
NoArgs == [tls |-> FALSE, bitMap |-> <<>>, nbd_ip |-> <<>>,
           socketFile |-> <<>>, verbose |-> FALSE]

ArgsOf(op) ==
    CASE op = "remoteRestore" ->
           {[NoArgs EXCEPT !.tls = t] : t \in BOOLEAN}
      [] op = "remoteBackup" ->
           {[NoArgs EXCEPT !.tls = t, !.bitMap = b, !.nbd_ip = i] :
               t \in BOOLEAN, b \in BitMaps, i \in NbdIps}
      [] op = "localBackup" ->
           {[NoArgs EXCEPT !.socketFile = k, !.bitMap = b] :
               k \in SocketFiles, b \in BitMaps}
      [] op = "nbdkit" ->
           {[NoArgs EXCEPT !.verbose = v] : v \in BOOLEAN}

\* " ".join(cmd)
RECURSIVE Join(_, _)
Join(sep, list) ==
    IF list = <<>> THEN <<>>
    ELSE IF Len(list) = 1 THEN list[1]
    ELSE list[1] \o sep \o Join(sep, Tail(list))

\* util._gt: tempfile.NamedTemporaryFile creates a file whose name is
\* prefix + random part + suffix and that does not exist yet; with
\* delete=False the file is kept when the `with` block is left.
TmpName(prefix, r, suffix) == <<"/tmp/", prefix, ToString(r), suffix>>
GtCandidates(fs, prefix, suffix) ==
    {TmpName(prefix, r, suffix) : r \in 1..NRnd} \ fs
GtAfterDeleting(fs, name) == fs
GtAfter(fs, name) == fs \cup {name}

\* util._addTls
AddTlsNoCredsReference(cmd, certpath) ==
    cmd \o << <<"--object">>,
              <<"tls-creds-x509", ",id=tls0", ",endpoint=server", ",dir=">>
                  \o certpath \o <<",verify-peer=false">> >>
AddTls(cmd, certpath) ==
    cmd \o << <<"--object">>,
              <<"tls-creds-x509", ",id=tls0", ",endpoint=server", ",dir=">>
                  \o certpath \o <<",verify-peer=false">>,
              <<"--tls-creds", " tls0">> >>

NoCall == [op |-> "none", args |-> NoArgs, argv |-> <<>>, line |-> <<>>, pidFile |-> <<>>,
           logFile |-> <<>>]

\* util.startRemoteRestoreNbdServer: the command and the executor call
\* args.sshClient.run(" ".join(cmd), pidFile, logFile)
RemoteRestoreCmd(a, pidFile, logFile) ==
    LET cmd == << <<"qemu-nbd">>, <<"--discard=unmap">>, <<"--format=qcow2">>,
                  <<"-x">>, ExportName, TargetFile,
                  <<"-p">>, NbdPort,
                  <<"--pid-file">>, pidFile,
                  <<"--fork">> >>
        tls == IF a.tls = TRUE THEN AddTls(cmd, TlsCert) ELSE cmd
    IN Append(tls, <<"> ">> \o logFile \o <<" 2>&1">>)

StartRemoteRestoreCall(a, pidFile, logFile) ==
    [op |-> "remoteRestore", args |-> a,
     argv |-> RemoteRestoreCmd(a, pidFile, logFile),
     line |-> Join(<<" ">>, RemoteRestoreCmd(a, pidFile, logFile)),
     pidFile |-> pidFile, logFile |-> logFile]

\* util.startRemoteBackupNbdServer
RemoteBackupCmdTerminator(a, pidFile, logFile) ==
    LET cmd == << <<"qemu-nbd">>, <<"-r">>, <<"--format=">> \o DiskFormat,
                  <<"-x">>, ExportName, DiskFile,
                  <<"-p">>, NbdPort,
                  <<"--pid-file">>, pidFile,
                  <<"--fork">> >>
        ip == IF a.nbd_ip # <<>> THEN cmd \o << <<"-b">>, a.nbd_ip >> ELSE cmd
        bm == IF a.bitMap # <<>>
                THEN Append(ip, <<"--bitmap=">> \o a.bitMap)
                ELSE Append(ip, <<"--">>)
        tls == IF a.tls = TRUE THEN AddTls(bm, TlsCert) ELSE bm
    IN Append(tls, <<"> ">> \o logFile \o <<" 2>&1">>)
RemoteBackupCmd(a, pidFile, logFile) ==
    LET cmd == << <<"qemu-nbd">>, <<"-r">>, <<"--format=">> \o DiskFormat,
                  <<"-x">>, ExportName, DiskFile,
                  <<"-p">>, NbdPort,
                  <<"--pid-file">>, pidFile,
                  <<"--fork">> >>
        ip == IF a.nbd_ip # <<>> THEN cmd \o << <<"-b">>, a.nbd_ip >> ELSE cmd
        bm == IF a.bitMap # <<>>
                THEN Append(ip, <<"--bitmap=">> \o a.bitMap)
                ELSE ip
        tls == IF a.tls = TRUE THEN AddTls(bm, TlsCert) ELSE bm
    IN Append(tls, <<"> ">> \o logFile \o <<" 2>&1">>)

StartRemoteBackupCall(a, pidFile, logFile) ==
    [op |-> "remoteBackup", args |-> a,
     argv |-> RemoteBackupCmd(a, pidFile, logFile),
     line |-> Join(<<" ">>, RemoteBackupCmd(a, pidFile, logFile)),
     pidFile |-> pidFile, logFile |-> logFile]

\* util.startBackupNbdServer: command.run(cmd, pidFile=pidFile)
BackupPidFile(socketFile) == socketFile \o <<".pid">>
BackupCmd(a) ==
    LET bitmapOpt == IF a.bitMap # <<>> THEN <<"--bitmap=">> \o a.bitMap
                     ELSE <<"--">>
    IN << <<"qemu-nbd">>, <<"-r">>, <<"--format=">> \o DiskFormat,
          <<"-x">>, ExportName, DiskFile,
          <<"-k">>, a.socketFile,
          <<"-t">>, <<"-e 2">>, <<"--fork">>, <<"--detect-zeroes=on">>,
          <<"--pid-file=">> \o BackupPidFile(a.socketFile),
          bitmapOpt >>

StartBackupCallNoPidFile(a) ==
    [op |-> "localBackup", args |-> a, argv |-> BackupCmd(a), line |-> <<>>,
     pidFile |-> <<>>, logFile |-> <<>>]
StartBackupCall(a) ==
    [op |-> "localBackup", args |-> a, argv |-> BackupCmd(a), line |-> <<>>,
     pidFile |-> BackupPidFile(a.socketFile), logFile |-> <<>>]

\* util.startNbdkitProcess: command.run(cmd, pidFile=pidFile)
NbdkitCmd(a, pidFile) ==
    LET debug == IF a.verbose THEN "1" ELSE "0"
    IN << <<"nbdkit">>, <<"--pidfile">>, pidFile,
          <<"-i">>, <<"127.0.0.1">>, <<"-p">>, NbdPort,
          <<"-e">>, ExportName,
          <<"--filter=blocksize">>, <<"--filter=cow">>, <<"-v">>,
          <<"python">>, <<"/usr/share/virtnbdmap/virtnbd-nbdkit-plugin">>,
          <<"maxlen=", "4096">>, <<"blockmap=", "/tmp/blockmap">>,
          <<"disk=", "/backup/sda.full.data">>, <<"debug=", debug>>,
          <<"-t">>, <<"1">> >>

StartNbdkitCall(a, pidFile) ==
    [op |-> "nbdkit", args |-> a, argv |-> NbdkitCmd(a, pidFile), line |-> <<>>,
     pidFile |-> pidFile, logFile |-> <<>>]

\* args.sshClient.run: the process handle, or sshError
SshRun(fails) == IF fails THEN "sshError" ELSE "ok"

\* `except sshError:` of both remote starts: log.error(..., logFile); raise
OnSshErrorSwallowed(pidFile, logFile) == [logged |-> logFile, then |-> "return"]
OnSshError(pidFile, logFile) == [logged |-> logFile, then |-> "raise"]

PidPrefix(op) ==
    CASE op = "remoteRestore" -> "qemu-nbd-restore"
      [] op = "remoteBackup" -> "qemu-nbd-backup"
      [] op = "nbdkit" -> "nbdkit"

IdleSess == [pc |-> "idle", op |-> "none", args |-> NoArgs,
             pidFile |-> <<>>, logFile |-> <<>>]
NoResult == [kind |-> "none", exc |-> "none", sshFailed |-> FALSE,
             handle |-> FALSE]

UtilInit ==
    /\ sess = [s \in Sessions |-> IdleSess]
    /\ tmpfs = {}
    /\ runs = {}
    /\ reused = FALSE
    /\ nStarts = 0
    /\ lastCall = NoCall
    /\ lastResult = NoResult
    /\ errLog = <<>>

\* A start operation is called with its parameters.
Begin(s, op, a, max) ==
    /\ sess[s].pc = "idle"
    /\ nStarts < max
    /\ nStarts' = nStarts + 1
    /\ sess' = [sess EXCEPT ![s] =
                  [pc |-> IF op = "localBackup" THEN "run" ELSE "gtPid",
                   op |-> op, args |-> a, pidFile |-> <<>>, logFile |-> <<>>]]
    /\ UNCHANGED <<tmpfs, runs, reused, lastCall, lastResult, errLog>>
    /\ UNCHANGED sigVars

\* pidFile = self._gt(<prefix>, ".pid")
GtPidFile(s) ==
    /\ sess[s].pc = "gtPid"
    /\ \E name \in GtCandidates(tmpfs, PidPrefix(sess[s].op), ".pid") :
          /\ tmpfs' = GtAfter(tmpfs, name)
          /\ sess' = [sess EXCEPT ![s].pidFile = name,
                        ![s].pc = IF sess[s].op = "nbdkit" THEN "run"
                                  ELSE "gtLog"]
    /\ UNCHANGED <<runs, reused, nStarts, lastCall, lastResult, errLog>>
    /\ UNCHANGED sigVars

\* logFile = self._gt(<prefix>, ".log")
GtLogFile(s) ==
    /\ sess[s].pc = "gtLog"
    /\ \E name \in GtCandidates(tmpfs, PidPrefix(sess[s].op), ".log") :
          /\ tmpfs' = GtAfter(tmpfs, name)
          /\ sess' = [sess EXCEPT ![s].logFile = name, ![s].pc = "run"]
    /\ UNCHANGED <<runs, reused, nStarts, lastCall, lastResult, errLog>>
    /\ UNCHANGED sigVars

\* return command.run(cmd, pidFile=pidFile) of startBackupNbdServer
RunLocalBackup(s) ==
    /\ sess[s].pc = "run"
    /\ sess[s].op = "localBackup"
    /\ lastCall' = StartBackupCall(sess[s].args)
    /\ lastResult' = [NoResult EXCEPT !.kind = "returned", !.handle = TRUE]
    /\ sess' = [sess EXCEPT ![s] = IdleSess]
    /\ UNCHANGED <<tmpfs, runs, reused, nStarts, errLog>>
    /\ UNCHANGED sigVars

\* return command.run(cmd, pidFile=pidFile) of startNbdkitProcess
RunNbdkit(s) ==
    /\ sess[s].pc = "run"
    /\ sess[s].op = "nbdkit"
    /\ lastCall' = StartNbdkitCall(sess[s].args, sess[s].pidFile)
    /\ lastResult' = [NoResult EXCEPT !.kind = "returned", !.handle = TRUE]
    /\ sess' = [sess EXCEPT ![s] = IdleSess]
    /\ UNCHANGED <<tmpfs, runs, reused, nStarts, errLog>>
    /\ UNCHANGED sigVars

\* try: return args.sshClient.run(" ".join(cmd), pidFile, logFile)
RunRemote(s) ==
    /\ sess[s].pc = "run"
    /\ sess[s].op \in RemoteOps
    /\ lastCall' = IF sess[s].op = "remoteRestore"
                     THEN StartRemoteRestoreCall(sess[s].args, sess[s].pidFile,
                                                 sess[s].logFile)
                     ELSE StartRemoteBackupCall(sess[s].args, sess[s].pidFile,
                                                sess[s].logFile)
    /\ runs' = runs \cup {<<lastCall'.pidFile, lastCall'.logFile>>}
    /\ reused' = (reused \/ \E r \in runs :
                     {r[1], r[2]} \cap {lastCall'.pidFile, lastCall'.logFile} # {})
    /\ \E fails \in BOOLEAN :
          IF SshRun(fails) = "ok"
            THEN /\ lastResult' = [NoResult EXCEPT !.kind = "returned",
                                                   !.handle = TRUE]
                 /\ sess' = [sess EXCEPT ![s] = IdleSess]
            ELSE /\ lastResult' = [NoResult EXCEPT !.kind = "pending",
                                                   !.sshFailed = TRUE]
                 /\ sess' = [sess EXCEPT ![s].pc = "except"]
    /\ UNCHANGED <<tmpfs, nStarts, errLog>>
    /\ UNCHANGED sigVars

\* except sshError: log.error("... check [%s] for errors.", logFile)
LogSshError(s) ==
    /\ sess[s].pc = "except"
    /\ errLog' = OnSshError(sess[s].pidFile, sess[s].logFile).logged
    /\ sess' = [sess EXCEPT ![s].pc = "logged"]
    /\ UNCHANGED <<tmpfs, runs, reused, nStarts, lastCall, lastResult>>
    /\ UNCHANGED sigVars

\* raise
Reraise(s) ==
    /\ sess[s].pc = "logged"
    /\ lastResult' =
          IF OnSshError(sess[s].pidFile, sess[s].logFile).then = "raise"
            THEN [lastResult EXCEPT !.kind = "raised", !.exc = "sshError"]
            ELSE [lastResult EXCEPT !.kind = "returned"]
    /\ sess' = [sess EXCEPT ![s] = IdleSess]
    /\ UNCHANGED <<tmpfs, runs, reused, nStarts, lastCall, errLog>>
    /\ UNCHANGED sigVars

\* ========================================================== specifications

\* The process that is not under study stays as constructed.
SigIdle ==
    /\ job = "backup"
    /\ offline = "False"
    /\ sigpc = "running"
    /\ files = MapFiles
    /\ devConnected = TRUE
    /\ procAlive = TRUE
    /\ steps = <<>>
    /\ exitStatus = -1
    /\ escaped = "none"
    /\ stopCalls = 0
    /\ stopFailed = FALSE
    /\ discCount = 0
    /\ discResult = "none"

\* One session calling each of the start operations with every parameter.
CmdNext ==
    \/ \E op \in Ops : \E a \in ArgsOf(op) : Begin(1, op, a, MaxCmdStarts)
    \/ GtPidFile(1)
    \/ GtLogFile(1)
    \/ RunLocalBackup(1)
    \/ RunNbdkit(1)
    \/ RunRemote(1)
    \/ LogSshError(1)
    \/ Reraise(1)

\* Concurrent sessions starting remote exports.
TmpNext ==
    \E s \in Sessions :
        \/ \E op \in RemoteOps : Begin(s, op, NoArgs, MaxStarts)
        \/ GtPidFile(s)
        \/ GtLogFile(s)
        \/ RunRemote(s)
        \/ LogSshError(s)
        \/ Reraise(s)

\* The signal handlers and disconnect.
Init == SigInit /\ UtilInit
Next == SigNext
Spec == Init /\ [][Next]_vars

\* The start operations of qemu/util.py, one session.
InitCmd == SigIdle /\ UtilInit
SpecCmd == InitCmd /\ [][CmdNext]_vars

\* Remote starts of several sessions interleaved.
InitTmp == SigIdle /\ UtilInit
SpecTmp == InitTmp /\ [][TmpNext]_vars

\* ================================================================== claims

Elems(seq) == {seq[i] : i \in 1..Len(seq)}
IsPrefix(a, b) == Len(a) <= Len(b) /\ \A i \in 1..Len(a) : a[i] = b[i]
Terminal == {"exited", "raised"}
CleanupSteps == {"disconnect", "removeBlockMap", "removeLog", "killProc"}

\* The handler got past its first step: the disconnect command succeeded.
PastDisconnect == "removeBlockMap" \in Elems(steps)

\* C1: in Map.catch every teardown step is attempted whatever earlier step
\* failed; stated for the case the claim singles out: the device was
\* disconnected and the removal of the block-map file was attempted (the
\* file may already be deleted), so the log file removal and the kill of the
\* nbdkit pid are attempted too.
C1_AllStepsAttempted ==
    (job = "map" /\ sigpc \in Terminal /\ PastDisconnect)
        => CleanupSteps \subseteq Elems(steps)

\* C2: a handler that was entered ends in sys.exit with its fixed status
\* (Backup 1, Map 0); no error of a cleanup step leaves the handler instead.
\* Stated for Backup.catch in full and for Map.catch once the device was
\* disconnected, that is with a file removal or killProc failing.
C2_HandlerAlwaysExits ==
    (sigpc \in Terminal /\ (job = "map" => PastDisconnect)) =>
        /\ escaped = "none"
        /\ exitStatus = (IF job = "backup" THEN BackupExitStatus
                         ELSE MapExitStatus)

\* C3: the steps of one Map.catch invocation are attempted in the order
\* disconnect, remove block-map, remove log, kill pid, exit: what has been
\* attempted so far is always a prefix of that order, and an exit has all of
\* it behind it.
C3_MapStepsInOrder ==
    job = "map" =>
        /\ IsPrefix(steps, MapOrder)
        /\ (sigpc = "exited" => steps = MapOrder)

C3_Witness ==
    /\ job = "map"
    /\ sigpc = "exited"
    /\ steps = <<"disconnect", "removeBlockMap", "removeLog", "killProc", "exit">>
    /\ files = {}

\* C4: Backup.catch calls stopBackup exactly once when the job is not
\* offline and never when it is; a failed stopBackup is not retried, and the
\* handler then exits with a non-zero status.
C4_StopBackupOnceUnlessOffline ==
    job = "backup" =>
        /\ stopCalls <= 1
        /\ (offline = "True" => stopCalls = 0)
        /\ sigpc # "raised"
        /\ (sigpc \in {"exit", "exited"} =>
               stopCalls = (IF offline = "True" THEN 0 ELSE 1))
        /\ (sigpc = "exited" => exitStatus > 0)

C4_Witness ==
    /\ job = "backup"
    /\ offline = "False"
    /\ sigpc = "exited"
    /\ stopFailed
    /\ stopCalls = 1

\* C5: a second disconnect of the same device in succession does not raise
\* to its caller; a failing disconnect command is only logged.
C5_SecondDisconnectDoesNotRaise ==
    discCount >= 2 => discResult = "ok"

\* C6: when the remote executor fails, the start operation logs an error
\* naming the log file allocated for this invocation, and only then raises
\* the same sshError; it returns no process handle.
C6_SshErrorLoggedThenRaised ==
    /\ \A s \in Sessions :
          sess[s].pc = "logged" =>
              /\ errLog = sess[s].logFile
              /\ errLog = lastCall.logFile
    /\ (lastResult.sshFailed /\ lastResult.kind # "pending") =>
          /\ lastResult.kind = "raised"
          /\ lastResult.exc = "sshError"
          /\ ~lastResult.handle
          /\ errLog = lastCall.logFile
          /\ errLog \in tmpfs
          /\ lastCall.argv[Len(lastCall.argv)] = <<"> ">> \o errLog \o <<" 2>&1">>

C6_Witness ==
    /\ lastResult.sshFailed
    /\ lastResult.kind = "raised"
    /\ lastCall.op = "remoteBackup"
    /\ errLog = lastCall.logFile

\* C7: the pid-file path handed to the executor is the one in the command
\* line, for every server started with a pid-file; for the local backup
\* export it is the socket path followed by ".pid".
PidFlagValues(call) ==
    {call.argv[i + 1] : i \in {j \in 1..(Len(call.argv) - 1) :
                                  call.argv[j] \in {<<"--pid-file">>, <<"--pidfile">>}}}
    \cup {SubSeq(e, 2, Len(e)) : e \in {x \in Elems(call.argv) :
                                           x # <<>> /\ x[1] = "--pid-file="}}

C7_PidFileRecorded ==
    lastCall.op # "none" =>
        /\ lastCall.pidFile # <<>>
        /\ PidFlagValues(lastCall) = {lastCall.pidFile}
        /\ (lastCall.op \in RemoteOps =>
               \E i \in 1..(Len(lastCall.line) - Len(lastCall.pidFile) - 1) :
                   SubSeq(lastCall.line, i, i + 1 + Len(lastCall.pidFile))
                       = <<"--pid-file", " ">> \o lastCall.pidFile)
        /\ (lastCall.op = "localBackup" =>
               lastCall.pidFile = lastCall.args.socketFile \o <<".pid">>)

C7_Witness ==
    /\ lastCall.op = "localBackup"
    /\ lastCall.args.socketFile = <<"/tmp/sock1">>
    /\ lastCall.pidFile = <<"/tmp/sock1", ".pid">>

\* C8: over every interleaving of remote starts, each invocation of the
\* remote executor gets a pid-file path and a log-file path allocated for it
\* beforehand, and no path serves two invocations or both files of one.
PathsOf(run) == {run[1], run[2]}
InFlight == {s \in Sessions : sess[s].pc \in {"gtLog", "run"}}
HeldBy(s) == {sess[s].pidFile, sess[s].logFile} \ {<<>>}

C8_FreshUniquePaths ==
    /\ ~reused
    /\ \A r \in runs :
          /\ r[1] # r[2]
          /\ <<>> \notin PathsOf(r)
          /\ PathsOf(r) \subseteq tmpfs
    /\ \A q, r \in runs : q # r => PathsOf(q) \cap PathsOf(r) = {}
    /\ \A s \in InFlight :
          /\ HeldBy(s) \subseteq tmpfs
          /\ \A r \in runs : HeldBy(s) \cap PathsOf(r) = {}
          /\ \A t \in InFlight \ {s} : HeldBy(s) \cap HeldBy(t) = {}
    /\ \A s \in Sessions :
          sess[s].pc = "run" => sess[s].pidFile # <<>> /\ sess[s].logFile # <<>>

\* Two remote executor calls of the same kind (same name prefix) were made.
C8_Witness ==
    /\ \E q, r \in runs : q # r /\ q[1][2] = r[1][2]
    /\ ~reused

\* C9: the remote restore and remote backup commands hold exactly one
\* tls-creds-x509 object (endpoint=server, verify-peer=false) and exactly one
\* --tls-creds reference when TLS is enabled and no TLS token when it is
\* not; either way they hold -p <port>, --pid-file and --fork.
TlsFragments == {"--object", "tls-creds-x509", "--tls-creds", " tls0",
                 ",id=tls0", ",endpoint=server", ",dir=", ",verify-peer=false"}
TlsObjects(argv) ==
    {i \in 1..Len(argv) : argv[i] # <<>> /\ argv[i][1] = "tls-creds-x509"}
TlsReferences(argv) ==
    {i \in 1..Len(argv) : argv[i] # <<>> /\ argv[i][1] = "--tls-creds"}
TlsTokens(argv) ==
    {i \in 1..Len(argv) : Elems(argv[i]) \cap TlsFragments # {}}
Occurrences(line, frag) == {i \in 1..Len(line) : line[i] = frag}

C9_TlsTokens ==
    lastCall.op \in RemoteOps =>
        /\ lastCall.args.tls =>
              /\ Cardinality(TlsObjects(lastCall.argv)) = 1
              /\ \A i \in TlsObjects(lastCall.argv) :
                    /\ ",endpoint=server" \in Elems(lastCall.argv[i])
                    /\ ",verify-peer=false" \in Elems(lastCall.argv[i])
                    /\ i > 1 /\ lastCall.argv[i - 1] = <<"--object">>
              /\ Cardinality(TlsReferences(lastCall.argv)) = 1
              /\ Cardinality(Occurrences(lastCall.line, "tls-creds-x509")) = 1
              /\ Cardinality(Occurrences(lastCall.line, "--tls-creds")) = 1
        /\ ~lastCall.args.tls =>
              /\ TlsTokens(lastCall.argv) = {}
              /\ Elems(lastCall.line) \cap TlsFragments = {}
        /\ \E i \in 1..(Len(lastCall.argv) - 1) :
              lastCall.argv[i] = <<"-p">> /\ lastCall.argv[i + 1] = NbdPort
        /\ <<"--pid-file">> \in Elems(lastCall.argv)
        /\ <<"--fork">> \in Elems(lastCall.argv)

C9_Witness ==
    /\ lastCall.op = "remoteRestore"
    /\ lastCall.args.tls
    /\ Cardinality(TlsObjects(lastCall.argv)) = 1

\* C10 as stated: every backup command, local or remote, built for an empty
\* bitmap holds the end-of-options terminator "--" in place of the bitmap
\* flag.
C10_TerminatorInEveryBackupCommand ==
    (lastCall.op \in {"localBackup", "remoteBackup"} /\ lastCall.args.bitMap = <<>>)
        => <<"--">> \in Elems(lastCall.argv)

\* C10 amended: the local backup command ends with "--" in place of the
\* bitmap flag when the bitmap is empty (and with --bitmap=<name> otherwise);
\* the remote backup command omits an empty bitmap entirely, as it omits an
\* empty bind address and disabled TLS; no option is emitted with an empty
\* value.
BitmapFlags(argv) ==
    {i \in 1..Len(argv) : argv[i] # <<>> /\ argv[i][1] = "--bitmap="}

C10_TerminatorOnlyInLocalBackup ==
    /\ lastCall.op = "localBackup" =>
          /\ Len(lastCall.argv) = Len(BackupCmd(NoArgs))
          /\ IF lastCall.args.bitMap = <<>>
               THEN /\ lastCall.argv[Len(lastCall.argv)] = <<"--">>
                    /\ BitmapFlags(lastCall.argv) = {}
               ELSE /\ lastCall.argv[Len(lastCall.argv)]
                          = <<"--bitmap=">> \o lastCall.args.bitMap
                    /\ <<"--">> \notin Elems(lastCall.argv)
    /\ lastCall.op = "remoteBackup" =>
          /\ IF lastCall.args.bitMap = <<>>
               THEN BitmapFlags(lastCall.argv) = {}
               ELSE \E i \in BitmapFlags(lastCall.argv) :
                       lastCall.argv[i] = <<"--bitmap=">> \o lastCall.args.bitMap
          /\ <<"--">> \notin Elems(lastCall.argv)
          /\ (lastCall.args.nbd_ip = <<>>) = (<<"-b">> \notin Elems(lastCall.argv))
          /\ (~lastCall.args.tls) = (TlsTokens(lastCall.argv) = {})
    /\ lastCall.op \in {"localBackup", "remoteBackup"} =>
          /\ <<>> \notin Elems(lastCall.argv)
          /\ <<"--bitmap=">> \notin Elems(lastCall.argv)

C10_Witness ==
    /\ lastCall.op = "remoteBackup"
    /\ lastCall.args.bitMap = <<>>
    /\ lastCall.args.nbd_ip = <<>>
    /\ ~lastCall.args.tls
    /\ lastResult.kind = "returned"

====
